---- MODULE Spec2Model ----
(***************************************************************************)
(* A model of package drivechain (src/drivechain/drivechain.go): the Go    *)
(* layer between a sidechain node and the native peg engine.               *)
(*                                                                         *)
(* Numbers.  The code mixes uint64, int64 and math/big integers and        *)
(* multiplies by 10^10, all far beyond the integers of the model checker,  *)
(* so every program integer is an arbitrary-precision natural: a sequence  *)
(* of limbs in base Base, least significant limb first, without leading    *)
(* zero limbs (math/big's nat has the same shape, with machine words for   *)
(* limbs).  A *big.Int is a record [nil, neg, abs], as in math/big.        *)
(***************************************************************************)
EXTENDS Integers, Sequences, FiniteSets, TLC

VARIABLES
  initPc,     \* position of Init: "idle", "request", "do", "returned", "panicked"
  init,       \* what Init has done so far and what it returned
  engine,     \* the native engine's persisted peg state
  lastCall,   \* the last call made across the engine boundary, with its string arguments
  last,       \* the last call of an exported function: its inputs and what it returned
  hist,       \* the block of the last accepted, applied ConnectBlock and the state before it
  args        \* the inputs handed to the withdrawal codec

vars == <<initPc, init, engine, lastCall, last, hist, args>>

----------------------------------------------------------------------------
(* Arbitrary-precision naturals *)

Base == 10000

RECURSIVE NatNorm(_)
NatNorm(s) ==
  IF s = <<>> THEN s
  ELSE IF s[Len(s)] # 0 THEN s
  ELSE NatNorm(SubSeq(s, 1, Len(s) - 1))

Limb(a, i) == IF i <= Len(a) THEN a[i] ELSE 0

RECURSIVE NatAddFrom(_, _, _, _)
NatAddFrom(a, b, i, c) ==
  IF i > Len(a) /\ i > Len(b)
  THEN (IF c = 0 THEN <<>> ELSE <<c>>)
  ELSE LET s == Limb(a, i) + Limb(b, i) + c
       IN  <<s % Base>> \o NatAddFrom(a, b, i + 1, s \div Base)

NatAdd(a, b) == NatAddFrom(a, b, 1, 0)

\* a - b, for a >= b
RECURSIVE NatSubFrom(_, _, _, _)
NatSubFrom(a, b, i, br) ==
  IF i > Len(a) THEN <<>>
  ELSE LET d == a[i] - Limb(b, i) - br
       IN  IF d < 0
           THEN <<d + Base>> \o NatSubFrom(a, b, i + 1, 1)
           ELSE <<d>> \o NatSubFrom(a, b, i + 1, 0)

NatSub(a, b) == NatNorm(NatSubFrom(a, b, 1, 0))

RECURSIVE NatCmpAt(_, _, _)
NatCmpAt(a, b, i) ==
  IF i = 0 THEN 0
  ELSE IF a[i] < b[i] THEN -1
  ELSE IF a[i] > b[i] THEN 1
  ELSE NatCmpAt(a, b, i - 1)

\* -1, 0 or 1 as a < b, a = b or a > b
NatCmp(a, b) ==
  IF Len(a) # Len(b)
  THEN (IF Len(a) < Len(b) THEN -1 ELSE 1)
  ELSE NatCmpAt(a, b, Len(a))

\* a * m for a machine-size m < Base
RECURSIVE NatMulSmallFrom(_, _, _, _)
NatMulSmallFrom(a, m, i, c) ==
  IF i > Len(a)
  THEN (IF c = 0 THEN <<>> ELSE <<c>>)
  ELSE LET p == a[i] * m + c
       IN  <<p % Base>> \o NatMulSmallFrom(a, m, i + 1, p \div Base)

NatMulSmall(a, m) == IF m = 0 THEN <<>> ELSE NatMulSmallFrom(a, m, 1, 0)

NatShift(a) == IF a = <<>> THEN <<>> ELSE <<0>> \o a

RECURSIVE NatMul(_, _)
NatMul(a, b) ==
  IF b = <<>> \/ a = <<>> THEN <<>>
  ELSE NatAdd(NatMulSmall(a, b[1]), NatShift(NatMul(a, Tail(b))))

\* quotient and remainder of a by a machine-size m, 0 < m < Base
RECURSIVE NatDivSmallAt(_, _, _, _)
NatDivSmallAt(a, m, i, r) ==
  IF i = 0 THEN [q |-> <<>>, r |-> r]
  ELSE LET cur  == r * Base + a[i]
           rest == NatDivSmallAt(a, m, i - 1, cur % m)
       IN  [q |-> Append(rest.q, cur \div m), r |-> rest.r]

NatDivSmall(a, m) ==
  LET x == NatDivSmallAt(a, m, Len(a), 0)
  IN  [q |-> NatNorm(x.q), r |-> x.r]

\* the greatest q in lo..hi with b * q <= cur
RECURSIVE QDigit(_, _, _, _)
QDigit(cur, b, lo, hi) ==
  IF lo >= hi THEN lo
  ELSE LET mid == (lo + hi + 1) \div 2
       IN  IF NatCmp(NatMulSmall(b, mid), cur) <= 0
           THEN QDigit(cur, b, mid, hi)
           ELSE QDigit(cur, b, lo, mid - 1)

\* schoolbook division: quotient and remainder of a by b, b # 0
RECURSIVE NatDivModAt(_, _, _, _)
NatDivModAt(a, b, i, r) ==
  IF i = 0 THEN [q |-> <<>>, r |-> r]
  ELSE LET cur  == NatNorm(<<a[i]>> \o r)
           qd   == QDigit(cur, b, 0, Base - 1)
           rem  == NatSub(cur, NatMulSmall(b, qd))
           rest == NatDivModAt(a, b, i - 1, rem)
       IN  [q |-> Append(rest.q, qd), r |-> rest.r]

NatDivMod(a, b) ==
  LET x == NatDivModAt(a, b, Len(a), <<>>)
  IN  [q |-> NatNorm(x.q), r |-> x.r]

NatOfInt(n) == NatNorm(<<n % Base, n \div Base>>)

\* 2^63 = 9223372036854775808 and 2^64 = 18446744073709551616
TwoTo63 == <<5808, 5477, 368, 3372, 922>>
TwoTo64 == <<1616, 955, 737, 6744, 1844>>

----------------------------------------------------------------------------
(* math/big integers *)

NilBig == [nil |-> TRUE, neg |-> FALSE, abs |-> <<>>]

BigOfNat(n) == [nil |-> FALSE, neg |-> FALSE, abs |-> n]

\* int64(u) for a uint64 u, then big.NewInt of it: two's complement
\* reinterpretation, so u >= 2^63 comes out as u - 2^64
BigNewIntOfInt64(u) ==
  IF NatCmp(u, TwoTo63) < 0
  THEN [nil |-> FALSE, neg |-> FALSE, abs |-> u]
  ELSE [nil |-> FALSE, neg |-> TRUE, abs |-> NatSub(TwoTo64, u)]

BigMul(x, y) ==
  LET p == NatMul(x.abs, y.abs)
  IN  [nil |-> FALSE, neg |-> (p # <<>> /\ x.neg # y.neg), abs |-> p]

\* big.Int.QuoRem: truncated division
BigQuoRem(x, y) ==
  LET dm == NatDivMod(x.abs, y.abs)
  IN  [q |-> [nil |-> FALSE, neg |-> (dm.q # <<>> /\ x.neg # y.neg), abs |-> dm.q],
       r |-> [nil |-> FALSE, neg |-> (dm.r # <<>> /\ x.neg), abs |-> dm.r]]

\* big.Int.Div: Euclidean division, QuoRem adjusted when the remainder is negative
BigDiv(x, y) ==
  LET qr == BigQuoRem(x, y)
  IN  IF qr.r.neg
      THEN [nil |-> FALSE, neg |-> ~y.neg, abs |-> NatAdd(qr.q.abs, <<1>>)]
      ELSE qr.q

\* var Satoshi = big.NewInt(10_000_000_000): 10^10 = 100 * Base^2
Satoshi == BigOfNat(<<0, 0, 100>>)

----------------------------------------------------------------------------
(* Bytes, encoding/binary and the withdrawal codec *)

FeeLength == 8
MainchainAddressLength == 20

Reverse(s) == [i \in 1..Len(s) |-> s[Len(s) + 1 - i]]

\* the k low bytes of u, least significant first
RECURSIVE LowBytes(_, _)
LowBytes(u, k) ==
  IF k = 0 THEN <<>>
  ELSE LET dm == NatDivSmall(u, 256)
       IN  <<dm.r>> \o LowBytes(dm.q, k - 1)

\* binary.BigEndian.PutUint64 into a buffer of 8 bytes
PutUint64(u) == Reverse(LowBytes(u, 8))

\* binary.BigEndian.Uint64 of the first 8 bytes of b
RECURSIVE BigEndianAt(_, _)
BigEndianAt(b, n) ==
  IF n = 0 THEN <<>>
  ELSE NatAdd(NatMulSmall(BigEndianAt(b, n - 1), 256), NatOfInt(b[n]))

Uint64(b) == BigEndianAt(b, 8)

\* Go's s[lo:hi]
Slice(s, lo, hi) == SubSeq(s, lo + 1, hi)

ZeroAddress == [i \in 1..MainchainAddressLength |-> 0]

\* Withdrawal{}: the zero value
EmptyWithdrawal == [Address |-> ZeroAddress, Amount |-> NilBig, Fee |-> NilBig]

\* GetWithdrawalData, given the address the engine's get_new_mainchain_address hands out
GetWithdrawalData(fee, cAddress) ==
  LET feeBytes     == PutUint64(fee)
      addressBytes == [i \in 1..MainchainAddressLength |-> cAddress[i]]
  IN  feeBytes \o addressBytes

\* DecodeWithdrawal with a length test that lets longer payloads through
DecodeWithdrawalLongAccepted(value, data) ==
  IF Len(data) < FeeLength + MainchainAddressLength
  THEN [w |-> EmptyWithdrawal, err |-> "wrong withdrawal data length", panic |-> "none"]
  ELSE LET feeBytes == Slice(data, 0, FeeLength)
           addressBytes == Slice(data, FeeLength, FeeLength + MainchainAddressLength)
       IN  [w |-> [Address |-> [i \in 1..MainchainAddressLength |-> addressBytes[i]],
                   Amount  |-> BigDiv(value, Satoshi),
                   Fee     |-> BigNewIntOfInt64(Uint64(feeBytes))],
            err |-> "nil", panic |-> "none"]

\* DecodeWithdrawal: the Withdrawal, the error ("nil" for none) and the panic reached
\* ("none" for none)
DecodeWithdrawal(value, data) ==
  IF Len(data) # FeeLength + MainchainAddressLength
  THEN [w |-> EmptyWithdrawal, err |-> "wrong withdrawal data length", panic |-> "none"]
  ELSE LET feeBytes == Slice(data, 0, FeeLength)
       IN  IF Len(feeBytes) # FeeLength
           THEN [w |-> EmptyWithdrawal, err |-> "nil", panic |-> "off by one error"]
           ELSE LET addressBytes == Slice(data, FeeLength, FeeLength + MainchainAddressLength)
                IN  IF Len(addressBytes) # MainchainAddressLength
                    THEN [w |-> EmptyWithdrawal, err |-> "nil", panic |-> "off by one error"]
                    ELSE [w |-> [Address |-> [i \in 1..MainchainAddressLength |-> addressBytes[i]],
                                 Amount  |-> BigDiv(value, Satoshi),
                                 Fee     |-> BigNewIntOfInt64(Uint64(feeBytes))],
                          err |-> "nil", panic |-> "none"]

----------------------------------------------------------------------------
(* Hex strings (a string is a sequence of one-character strings), common.Hash
   and common.Address *)

HashLength == 32
AddressLength == 20

HexChars == <<"0", "1", "2", "3", "4", "5", "6", "7", "8", "9", "a", "b", "c", "d", "e", "f">>
UpperHexChars == <<"0", "1", "2", "3", "4", "5", "6", "7", "8", "9", "A", "B", "C", "D", "E", "F">>

\* hex.EncodeToString: two lowercase digits per byte
HexOfBytes(b) ==
  [i \in 1..(2 * Len(b)) |->
     IF i % 2 = 1 THEN HexChars[(b[(i + 1) \div 2] \div 16) + 1]
                  ELSE HexChars[(b[i \div 2] % 16) + 1]]

\* common.Hash.Hex and common.Address.Hex up to letter case: hexutil.Encode, "0x" and the digits
HashHex(h) == <<"0", "x">> \o HexOfBytes(h)

\* the value of a hex digit, -1 for any other character
HexVal(c) ==
  IF \E v \in 1..16 : HexChars[v] = c \/ UpperHexChars[v] = c
  THEN (CHOOSE v \in 1..16 : HexChars[v] = c \/ UpperHexChars[v] = c) - 1
  ELSE -1

\* hex.DecodeString with its error dropped (common.Hex2Bytes): the bytes decoded
\* before the first bad digit
RECURSIVE Hex2Bytes(_)
Hex2Bytes(s) ==
  IF Len(s) < 2 THEN <<>>
  ELSE IF HexVal(s[1]) < 0 \/ HexVal(s[2]) < 0 THEN <<>>
  ELSE <<HexVal(s[1]) * 16 + HexVal(s[2])>> \o Hex2Bytes(SubSeq(s, 3, Len(s)))

\* common.FromHex: an optional 0x prefix, an odd number of digits padded on the left
FromHex(s) ==
  LET t == IF Len(s) >= 2 /\ s[1] = "0" /\ s[2] \in {"x", "X"}
           THEN SubSeq(s, 3, Len(s)) ELSE s
      u == IF Len(t) % 2 = 1 THEN <<"0">> \o t ELSE t
  IN  Hex2Bytes(u)

\* SetBytes: cropped from the left to n bytes, or padded on the left with zeros
SetBytes(b, n) ==
  LET c == IF Len(b) > n THEN SubSeq(b, Len(b) - n + 1, Len(b)) ELSE b
  IN  [i \in 1..n |-> IF i <= n - Len(c) THEN 0 ELSE c[i - (n - Len(c))]]

HexToHash(s) == SetBytes(FromHex(s), HashLength)
HexToAddress(s) == SetBytes(FromHex(s), AddressLength)

\* strings.ToLower on the characters an address holds
ToLower(s) ==
  [i \in 1..Len(s) |->
     IF \E v \in 11..16 : UpperHexChars[v] = s[i]
     THEN HexChars[CHOOSE v \in 11..16 : UpperHexChars[v] = s[i]]
     ELSE IF s[i] = "X" THEN "x" ELSE s[i]]

TREASURY_ACCOUNT == <<"0", "x", "c", "9", "6", "a", "a", "a", "5", "4", "e", "2", "d", "4", "4", "c", "2", "9", "9", "5", "6", "4", "d", "a", "7", "6", "e", "1", "c", "d", "3", "1", "8", "4", "a", "2", "3", "8", "6", "b", "8", "d">>

----------------------------------------------------------------------------
(* The native engine behind bindings.h.  Its state:
     initialized    initBmmEngine has run
     deposits       the mainchain deposit outputs seen so far, each spent
                    (consumed by a connected block) or not
     withdrawals    the withdrawals of connected blocks, each "unspent" or
                    "refunded"                                              *)

NewEngine ==
  [initialized |-> FALSE, deposits |-> <<>>, withdrawals |-> <<>>]

initBmmEngine(eng) == [eng EXCEPT !.initialized = TRUE]

IsPendingDeposit(d) == ~d.spent
IsUnspentWithdrawal(w) == w.status = "unspent"

\* C.get_deposit_outputs: the validity flag (whether the engine could answer)
\* and the pending outputs; a result flagged invalid still carries whatever
\* the engine had collected
get_deposit_outputs(eng, valid) ==
  LET pending == SelectSeq(eng.deposits, IsPendingDeposit)
  IN  [valid |-> valid,
       ptr   |-> [i \in 1..Len(pending) |->
                    [address |-> pending[i].address, amount |-> pending[i].amount]]]

\* C.get_unspent_withdrawals
get_unspent_withdrawals(eng) ==
  LET unspent == SelectSeq(eng.withdrawals, IsUnspentWithdrawal)
  IN  [i \in 1..Len(unspent) |->
         [id |-> unspent[i].id, address |-> unspent[i].address,
          amount |-> unspent[i].amount, fee |-> unspent[i].fee]]

Range(s) == {s[i] : i \in 1..Len(s)}
NoRepeats(s) == Cardinality(Range(s)) = Len(s)

DepositAddresses(eng, spent) ==
  {eng.deposits[i].address : i \in {j \in 1..Len(eng.deposits) : eng.deposits[j].spent = spent}}
WithdrawalIds(eng, status) ==
  {eng.withdrawals[i].id : i \in {j \in 1..Len(eng.withdrawals) : eng.withdrawals[j].status = status}}
KnownWithdrawalIds(eng) == {eng.withdrawals[i].id : i \in 1..Len(eng.withdrawals)}

\* C.connect_block: all or nothing.  A block is acceptable when each deposit is
\* a pending output, no withdrawal id is already known and each refund names an
\* unspent withdrawal; with just_checking the answer is given and nothing is
\* written.
connect_block(eng, cDeposits, cWithdrawals, cRefunds, just_checking) ==
  LET dAddrs == [i \in 1..Len(cDeposits) |-> cDeposits[i].address]
      wIds   == [i \in 1..Len(cWithdrawals) |-> cWithdrawals[i].id]
      rIds   == [i \in 1..Len(cRefunds) |-> cRefunds[i].id]
      ok     == /\ NoRepeats(dAddrs) /\ NoRepeats(wIds) /\ NoRepeats(rIds)
                /\ Range(dAddrs) \subseteq DepositAddresses(eng, FALSE)
                /\ Range(wIds) \cap KnownWithdrawalIds(eng) = {}
                /\ Range(rIds) \subseteq WithdrawalIds(eng, "unspent")
      applied ==
        [eng EXCEPT
           !.deposits = [i \in 1..Len(eng.deposits) |->
              IF eng.deposits[i].address \in Range(dAddrs)
              THEN [eng.deposits[i] EXCEPT !.spent = TRUE] ELSE eng.deposits[i]],
           !.withdrawals =
              [i \in 1..Len(eng.withdrawals) |->
                 IF eng.withdrawals[i].id \in Range(rIds)
                 THEN [eng.withdrawals[i] EXCEPT !.status = "refunded"]
                 ELSE eng.withdrawals[i]]
              \o [i \in 1..Len(cWithdrawals) |->
                    [id |-> cWithdrawals[i].id, address |-> cWithdrawals[i].address,
                     amount |-> cWithdrawals[i].amount, fee |-> cWithdrawals[i].fee,
                     status |-> "unspent"]]]
  IN  [ok |-> ok, eng |-> IF ok /\ ~just_checking THEN applied ELSE eng]

IsKept(w) == w.status # "removed"

\* C.disconnect_block: the inverse, all or nothing
disconnect_block(eng, cDeposits, cWithdrawals, cRefunds, just_checking) ==
  LET dAddrs == [i \in 1..Len(cDeposits) |-> cDeposits[i].address]
      ok     == /\ NoRepeats(dAddrs) /\ NoRepeats(cWithdrawals) /\ NoRepeats(cRefunds)
                /\ Range(dAddrs) \subseteq DepositAddresses(eng, TRUE)
                /\ Range(cWithdrawals) \subseteq WithdrawalIds(eng, "unspent")
                /\ Range(cRefunds) \subseteq WithdrawalIds(eng, "refunded")
      marked ==
        [i \in 1..Len(eng.withdrawals) |->
           IF eng.withdrawals[i].id \in Range(cWithdrawals)
           THEN [eng.withdrawals[i] EXCEPT !.status = "removed"]
           ELSE IF eng.withdrawals[i].id \in Range(cRefunds)
           THEN [eng.withdrawals[i] EXCEPT !.status = "unspent"]
           ELSE eng.withdrawals[i]]
      applied ==
        [eng EXCEPT
           !.deposits = [i \in 1..Len(eng.deposits) |->
              IF eng.deposits[i].address \in Range(dAddrs)
              THEN [eng.deposits[i] EXCEPT !.spent = FALSE] ELSE eng.deposits[i]],
           !.withdrawals = SelectSeq(marked, IsKept)]
  IN  [ok |-> ok, eng |-> IF ok /\ ~just_checking THEN applied ELSE eng]

\* C.is_outpoint_spent: whether the string names a withdrawal that is no longer unspent
is_outpoint_spent(eng, cId) == cId \in WithdrawalIds(eng, "refunded")

----------------------------------------------------------------------------
(* The inputs of the model: bounded sets of what the mainchain, the sidechain
   blocks and the callers supply *)

MaxBlockSize == 2
LenSlack == 2

\* 2^64 - 1
MaxUint64 == <<1615, 955, 737, 6744, 1844>>

\* uint64 values on both sides of 2^63
TestUint64 == {<<>>, <<1>>, <<1000>>, <<5807, 5477, 368, 3372, 922>>, TwoTo63, MaxUint64}

\* sidechain-unit values: 0, 1, 10^10 - 1, 10^10, 2 * 10^10 + 5, 21 * 10^24
TestValues ==
  {<<>>, <<1>>, <<9999, 9999, 99>>, <<0, 0, 100>>, <<5, 0, 200>>, <<0, 0, 0, 0, 0, 0, 21>>}

DepositAmounts == <<<<1>>, TwoTo63>>

\* the i-th deposit output the mainchain shows the engine
MainchainDepositOutput(i) ==
  [address |-> HashHex([j \in 1..AddressLength |-> (i * 29 + j * 7) % 256]),
   amount  |-> DepositAmounts[i]]

TestHash(k) == [j \in 1..HashLength |-> (k * 83 + j * 37) % 256]

\* block hashes, for the merged-mining calls
TestHashes == {TestHash(k) : k \in 3..6}

\* the hashes of the sidechain transactions that request withdrawals
TxIds == <<TestHash(1), TestHash(2)>>

TestMainchainAddress(k) == [j \in 1..MainchainAddressLength |-> (k * (53 + j * 11)) % 256]

\* the addresses get_new_mainchain_address hands out
MainchainAddresses == {TestMainchainAddress(k) : k \in 0..2}

\* the withdrawal a transaction requests, in mainchain units as DecodeWithdrawal leaves it
TxWithdrawal(h) ==
  IF h = TxIds[1]
  THEN [Address |-> TestMainchainAddress(1), Amount |-> BigOfNat(<<5>>), Fee |-> BigOfNat(<<1000>>)]
  ELSE [Address |-> TestMainchainAddress(2), Amount |-> BigOfNat(TwoTo63), Fee |-> BigOfNat(MaxUint64)]

----------------------------------------------------------------------------
(* Marshalling into the engine's structs (bindings, outside this file) *)

\* The width conversions of the bindings: big.Int.Uint64, the low 64 bits of
\* the magnitude, for the amounts the engine keeps; a refund's amount is
\* handed on as it is, the engine of this model reads only its id
BigToUint64(x) ==
  IF NatCmp(x.abs, TwoTo64) < 0 THEN x.abs ELSE NatDivMod(x.abs, TwoTo64).r

newDeposits(deposits) ==
  [i \in 1..Len(deposits) |->
     [address |-> HashHex(deposits[i].Address), amount |-> BigToUint64(deposits[i].Amount)]]

\* the map's entries, in the order of TxIds
newWithdrawals(withdrawals) ==
  LET keys == SelectSeq(TxIds, LAMBDA h : h \in DOMAIN withdrawals)
  IN  [i \in 1..Len(keys) |->
         [id      |-> HexOfBytes(keys[i]),
          address |-> withdrawals[keys[i]].Address,
          amount  |-> BigToUint64(withdrawals[keys[i]].Amount),
          fee     |-> BigToUint64(withdrawals[keys[i]].Fee)]]

newRefunds(refunds) ==
  [i \in 1..Len(refunds) |->
     [id |-> HexOfBytes(refunds[i].Id), amount |-> refunds[i].Amount]]

newWithdrawalsFromHash(hashes) == [i \in 1..Len(hashes) |-> HexOfBytes(hashes[i])]
newRefundsFromHash(hashes) == [i \in 1..Len(hashes) |-> HexOfBytes(hashes[i])]

----------------------------------------------------------------------------
(* The exported functions of drivechain.go *)

\* a test of the RPC answer that takes any answer for a good one
RpcAcceptedAny(statusCode) == statusCode >= 0

\* Init's test of the RPC answer
RpcAccepted(statusCode) == statusCode = 200

\* getDepositOutputs without its test of the validity flag
getDepositOutputsUnchecked(ptrDeposits) ==
  [deposits |-> [i \in 1..Len(ptrDeposits.ptr) |->
                   [address |-> ptrDeposits.ptr[i].address,
                    amount  |-> ptrDeposits.ptr[i].amount]],
   err |-> "nil"]

getDepositOutputs(ptrDeposits) ==
  IF ~ptrDeposits.valid
  THEN [deposits |-> <<>>, err |-> "can't get deposit outputs"]
  ELSE [deposits |-> [i \in 1..Len(ptrDeposits.ptr) |->
                        [address |-> ptrDeposits.ptr[i].address,
                         amount  |-> ptrDeposits.ptr[i].amount]],
        err |-> "nil"]

GetDepositOutputs(ptrDeposits) ==
  LET raw == getDepositOutputs(ptrDeposits)
  IN  IF raw.err # "nil"
      THEN [deposits |-> <<>>, err |-> "failed to get deposits"]
      ELSE [deposits |-> [i \in 1..Len(raw.deposits) |->
                            [Address |-> HexToAddress(raw.deposits[i].address),
                             Amount  |-> BigNewIntOfInt64(raw.deposits[i].amount)]],
            err |-> "nil"]

\* ConnectBlock that drops just_checking on the way to the engine
ConnectBlockAlwaysApplies(eng, deposits, withdrawals, refunds, just_checking) ==
  connect_block(eng, newDeposits(deposits), newWithdrawals(withdrawals),
                newRefunds(refunds), FALSE)

ConnectBlock(eng, deposits, withdrawals, refunds, just_checking) ==
  connect_block(eng, newDeposits(deposits), newWithdrawals(withdrawals),
                newRefunds(refunds), just_checking)

\* DisconnectBlock that hands the engine the refunds for the withdrawals and
\* the withdrawals for the refunds
DisconnectBlockSwapped(eng, deposits, withdrawals, refunds, just_checking) ==
  disconnect_block(eng, newDeposits(deposits), newWithdrawalsFromHash(refunds),
                   newRefundsFromHash(withdrawals), just_checking)

DisconnectBlock(eng, deposits, withdrawals, refunds, just_checking) ==
  disconnect_block(eng, newDeposits(deposits), newWithdrawalsFromHash(withdrawals),
                   newRefundsFromHash(refunds), just_checking)

\* the map GetUnspentWithdrawals builds of the first n records
RECURSIVE WithdrawalsMap(_, _)
WithdrawalsMap(cWithdrawals, n) ==
  IF n = 0 THEN [h \in {} |-> EmptyWithdrawal]
  ELSE LET m  == WithdrawalsMap(cWithdrawals, n - 1)
           c  == cWithdrawals[n]
           id == HexToHash(c.id)
           w  == [Address |-> c.address,
                  Amount  |-> BigMul(BigNewIntOfInt64(c.amount), Satoshi),
                  Fee     |-> BigMul(BigNewIntOfInt64(c.fee), Satoshi)]
       IN  [h \in (DOMAIN m) \cup {id} |-> IF h = id THEN w ELSE m[h]]

GetUnspentWithdrawals(cWithdrawals) == WithdrawalsMap(cWithdrawals, Len(cWithdrawals))

\* Go's s[lo:]
SliceFrom(s, lo) == SubSeq(s, lo + 1, Len(s))

\* the strings each function hands to the engine
AttemptBmm(header, amount) ==
  [fn |-> "attempt_bmm", amount |-> amount,
   hashes |-> <<SliceFrom(HashHex(header.Hash), 2), SliceFrom(HashHex(header.PrevMainBlockHash), 2)>>]

VerifyBmm(prevMainBlockHash, criticalHash) ==
  [fn |-> "verify_bmm",
   hashes |-> <<SliceFrom(HashHex(prevMainBlockHash), 2), SliceFrom(HashHex(criticalHash), 2)>>]

IsWithdrawalSpent(id) ==
  [fn |-> "is_outpoint_spent", hashes |-> <<HashHex(id)>>]

----------------------------------------------------------------------------
(* Startup and the merged-mining calls *)

NoCall == [fn |-> "none", hashes |-> <<>>]
NoLast == [op |-> "none"]
NoHist == [valid |-> FALSE]
NoArgs == [set |-> FALSE]
NoInit == [events |-> <<>>, result |-> "none"]

\* what crypto.PubkeyToAddress(...).Hex() may give for the treasury key: the
\* treasury account in mixed case, or another account
DerivableAccounts ==
  {<<"0", "x", "C", "9", "6", "a", "a", "a", "5", "4", "E", "2", "d", "4", "4", "c", "2", "9", "9", "5", "6", "4", "d", "a", "7", "6", "e", "1", "c", "D", "3", "1", "8", "4", "A", "2", "3", "8", "6", "B", "8", "D">>,
   <<"0", "x", "0", "0", "0", "0", "0", "0", "0", "0", "0", "0", "0", "0", "0", "0", "0", "0", "0", "0", "0", "0", "0", "0", "0", "0", "0", "0", "0", "0", "0", "0", "0", "0", "0", "0", "0", "0", "d", "E", "a", "D">>}

\* what http.DefaultClient.Do may answer within the 5 s of the context
RpcOutcomes ==
  {[err |-> "connection refused", status |-> 0],
   [err |-> "context deadline exceeded", status |-> 0],
   [err |-> "nil", status |-> 200],
   [err |-> "nil", status |-> 401],
   [err |-> "nil", status |-> 500]}

Init ==
  /\ initPc = "idle"
  /\ init = NoInit
  /\ engine = NewEngine
  /\ lastCall = NoCall
  /\ last = NoLast
  /\ hist = NoHist
  /\ args = NoArgs

\* Init, lines 53-78: the treasury key and address, then the request is built.
\* A caller that got an error back may call Init again.
InitStart ==
  /\ initPc = "idle" \/ (initPc = "returned" /\ init.result = "err")
  /\ \E address \in DerivableAccounts, requestErr \in BOOLEAN :
       LET actualTreasuryAccount == ToLower(address)
       IN  IF TREASURY_ACCOUNT # actualTreasuryAccount
           THEN /\ initPc' = "panicked"
                /\ init' = [events |-> <<"panic">>, result |-> "none"]
           ELSE IF requestErr
           THEN /\ initPc' = "returned"
                /\ init' = [events |-> <<"address_ok">>, result |-> "err"]
           ELSE /\ initPc' = "do"
                /\ init' = [events |-> <<"address_ok">>, result |-> "none"]
  /\ UNCHANGED <<engine, lastCall, last, hist, args>>

\* Init, line 80: the request goes out
InitDo ==
  /\ initPc = "do"
  /\ initPc' = "await"
  /\ init' = [init EXCEPT !.events = Append(@, "rpc_sent")]
  /\ UNCHANGED <<engine, lastCall, last, hist, args>>

\* Init, lines 80-99: the answer, or the transport's error, and what Init makes of it
InitResponse ==
  /\ initPc = "await"
  /\ \E res \in RpcOutcomes :
       IF res.err # "nil"
       THEN /\ init' = [events |-> Append(init.events, "rpc_error"), result |-> "err"]
            /\ UNCHANGED <<engine, lastCall>>
       ELSE IF ~RpcAccepted(res.status)
       THEN /\ init' = [events |-> Append(init.events, "rpc_not_ok"), result |-> "err"]
            /\ UNCHANGED <<engine, lastCall>>
       ELSE /\ init' = [events |-> init.events \o
                          <<(IF res.status = 200 THEN "rpc_ok" ELSE "rpc_not_ok"), "engine_init">>,
                        result |-> "nil"]
            /\ engine' = initBmmEngine(engine)
            /\ lastCall' = [fn |-> "init_bmm_engine", hashes |-> <<>>]
  /\ initPc' = "returned"
  /\ UNCHANGED <<last, hist, args>>

AttemptBmmCall ==
  /\ engine.initialized
  /\ \E hash \in TestHashes, prev \in TestHashes, amount \in TestUint64 :
       lastCall' = AttemptBmm([Hash |-> hash, PrevMainBlockHash |-> prev], amount)
  /\ last' = [op |-> "AttemptBmm"]
  /\ UNCHANGED <<initPc, init, engine, hist, args>>

VerifyBmmCall ==
  /\ engine.initialized
  /\ \E prev \in TestHashes, critical \in TestHashes :
       lastCall' = VerifyBmm(prev, critical)
  /\ last' = [op |-> "VerifyBmm"]
  /\ UNCHANGED <<initPc, init, engine, hist, args>>

IsWithdrawalSpentCall ==
  /\ engine.initialized
  /\ \E id \in TestHashes :
       /\ lastCall' = IsWithdrawalSpent(id)
       /\ last' = [op |-> "IsWithdrawalSpent",
                   result |-> is_outpoint_spent(engine, IsWithdrawalSpent(id).hashes[1])]
  /\ UNCHANGED <<initPc, init, engine, hist, args>>

Next ==
  \/ InitStart
  \/ InitDo
  \/ InitResponse
  \/ AttemptBmmCall
  \/ VerifyBmmCall
  \/ IsWithdrawalSpentCall

Spec == Init /\ [][Next]_vars

----------------------------------------------------------------------------
(* The peg: deposits, withdrawals and blocks, on an engine that Init has
   initialized *)

\* the Deposit GetDepositOutputs makes of the i-th deposit output
GoDeposit(i) ==
  GetDepositOutputs([valid |-> TRUE, ptr |-> <<MainchainDepositOutput(i)>>]).deposits[1]

RECURSIVE Pick(_, _, _)
Pick(s, S, n) ==
  IF n = 0 THEN <<>>
  ELSE IF n \in S THEN Append(Pick(s, S, n - 1), s[n]) ELSE Pick(s, S, n - 1)

NumDeposits == Len(DepositAmounts)

\* what a caller may hand in as a block's deposits, withdrawals and refunds
DepositChoices ==
  {Pick([i \in 1..NumDeposits |-> GoDeposit(i)], S, NumDeposits) : S \in SUBSET (1..NumDeposits)}
WithdrawalChoices == {[h \in S |-> TxWithdrawal(h)] : S \in SUBSET Range(TxIds)}
IdChoices == {Pick(TxIds, S, Len(TxIds)) : S \in SUBSET (1..Len(TxIds))}
RefundOf(h) == [Id |-> h, Amount |-> BigMul(TxWithdrawal(h).Amount, Satoshi)]
RefundChoices == {[i \in 1..Len(ids) |-> RefundOf(ids[i])] : ids \in IdChoices}

\* the blocks of at most MaxBlockSize entries, for ConnectBlock and for DisconnectBlock
ConnectChoices ==
  {b \in DepositChoices \X WithdrawalChoices \X RefundChoices :
     Len(b[1]) + Cardinality(DOMAIN b[2]) + Len(b[3]) <= MaxBlockSize}
DisconnectChoices ==
  {b \in DepositChoices \X IdChoices \X IdChoices :
     Len(b[1]) + Len(b[2]) + Len(b[3]) <= MaxBlockSize}

PegInit ==
  /\ initPc = "returned"
  /\ init = [events |-> <<"address_ok", "rpc_sent", "rpc_ok", "engine_init">>, result |-> "nil"]
  /\ engine = initBmmEngine(NewEngine)
  /\ lastCall = NoCall
  /\ last = NoLast
  /\ hist = NoHist
  /\ args = NoArgs

\* the mainchain confirms one more deposit output
MainchainDeposit ==
  /\ Len(engine.deposits) < NumDeposits
  /\ engine' = [engine EXCEPT !.deposits =
       Append(@, [address |-> MainchainDepositOutput(Len(@) + 1).address,
                  amount  |-> MainchainDepositOutput(Len(@) + 1).amount,
                  spent   |-> FALSE])]
  /\ lastCall' = NoCall /\ last' = NoLast /\ hist' = NoHist
  /\ UNCHANGED <<initPc, init, args>>

GetDepositOutputsCall ==
  /\ \E valid \in BOOLEAN :
       LET ptrDeposits == get_deposit_outputs(engine, valid)
           res == GetDepositOutputs(ptrDeposits)
       IN  last' = [op |-> "GetDepositOutputs", raw |-> ptrDeposits,
                    deposits |-> res.deposits, err |-> res.err]
  /\ lastCall' = [fn |-> "get_deposit_outputs", hashes |-> <<>>]
  /\ hist' = NoHist
  /\ UNCHANGED <<initPc, init, engine, args>>

GetUnspentWithdrawalsCall ==
  /\ LET ptrWithdrawals == get_unspent_withdrawals(engine)
     IN  last' = [op |-> "GetUnspentWithdrawals", raw |-> ptrWithdrawals,
                  withdrawals |-> GetUnspentWithdrawals(ptrWithdrawals)]
  /\ lastCall' = [fn |-> "get_unspent_withdrawals", hashes |-> <<>>]
  /\ hist' = NoHist
  /\ UNCHANGED <<initPc, init, engine, args>>

ConnectBlockCall ==
  /\ \E b \in ConnectChoices, just_checking \in BOOLEAN :
       LET deposits == b[1]
           withdrawals == b[2]
           refunds == b[3]
           res == ConnectBlock(engine, deposits, withdrawals, refunds, just_checking)
           wIds == SelectSeq(TxIds, LAMBDA h : h \in DOMAIN withdrawals)
           rIds == [i \in 1..Len(refunds) |-> refunds[i].Id]
       IN  /\ engine' = res.eng
           /\ last' = [op |-> "ConnectBlock", just_checking |-> just_checking,
                       nonempty |-> Len(deposits) + Len(wIds) + Len(rIds) > 0,
                       result |-> res.ok,
                       before |-> IF just_checking THEN engine ELSE NewEngine]
           /\ hist' = IF res.ok /\ ~just_checking
                      THEN [valid |-> TRUE, pre |-> engine, deposits |-> deposits,
                            withdrawals |-> wIds, refunds |-> rIds]
                      ELSE NoHist
  /\ lastCall' = [fn |-> "connect_block", hashes |-> <<>>]
  /\ UNCHANGED <<initPc, init, args>>

DisconnectBlockCall ==
  /\ \E b \in DisconnectChoices, just_checking \in BOOLEAN :
       LET deposits == b[1]
           withdrawals == b[2]
           refunds == b[3]
           res == DisconnectBlock(engine, deposits, withdrawals, refunds, just_checking)
           matching == /\ hist.valid
                       /\ deposits = hist.deposits
                       /\ withdrawals = hist.withdrawals
                       /\ refunds = hist.refunds
       IN  /\ engine' = res.eng
           /\ last' = [op |-> "DisconnectBlock", just_checking |-> just_checking,
                       nonempty |-> Len(deposits) + Len(withdrawals) + Len(refunds) > 0,
                       result |-> res.ok, matching |-> matching,
                       pre |-> IF matching THEN hist.pre ELSE NewEngine]
  /\ hist' = NoHist
  /\ lastCall' = [fn |-> "disconnect_block", hashes |-> <<>>]
  /\ UNCHANGED <<initPc, init, args>>

PegNext ==
  \/ MainchainDeposit
  \/ GetDepositOutputsCall
  \/ GetUnspentWithdrawalsCall
  \/ ConnectBlockCall
  \/ DisconnectBlockCall

SpecPeg == PegInit /\ [][PegNext]_vars

----------------------------------------------------------------------------
(* The withdrawal codec on its own: the inputs are drawn at the start, an
   engine that has been initialized hands out the addresses *)

\* a payload of n bytes: the fee, the address, then filler
Payload(fee, address, n) ==
  SubSeq(PutUint64(fee) \o address \o [i \in 1..(LenSlack + 1) |-> 255], 1, n)

PayloadLengths ==
  {0} \cup ((FeeLength + MainchainAddressLength - LenSlack)
             ..(FeeLength + MainchainAddressLength + LenSlack))

CodecInit ==
  /\ initPc = "returned"
  /\ init = [events |-> <<"address_ok", "rpc_sent", "rpc_ok", "engine_init">>, result |-> "nil"]
  /\ engine = initBmmEngine(NewEngine)
  /\ lastCall = NoCall
  /\ last = NoLast
  /\ hist = NoHist
  /\ \E value \in TestValues, fee \in TestUint64, address \in MainchainAddresses,
        n \in PayloadLengths :
       args = [set |-> TRUE, value |-> BigOfNat(value), fee |-> fee,
               data |-> Payload(fee, address, n)]

GetWithdrawalDataCall ==
  /\ last.op = "none"
  /\ \E cAddress \in MainchainAddresses :
       last' = [op |-> "GetWithdrawalData", fee |-> args.fee, address |-> cAddress,
                data |-> GetWithdrawalData(args.fee, cAddress)]
  /\ lastCall' = [fn |-> "get_new_mainchain_address", hashes |-> <<>>]
  /\ UNCHANGED <<initPc, init, engine, hist, args>>

\* DecodeWithdrawal of the payload GetWithdrawalData has just made, or else of
\* the payload drawn at the start
DecodeWithdrawalCall ==
  /\ last.op # "DecodeWithdrawal"
  /\ LET encoded == last.op = "GetWithdrawalData"
         data    == IF encoded THEN last.data ELSE args.data
         res     == DecodeWithdrawal(args.value, data)
     IN  last' = [op |-> "DecodeWithdrawal", value |-> args.value, data |-> data,
                  w |-> res.w, err |-> res.err, panic |-> res.panic,
                  encoded |-> encoded,
                  fee |-> IF encoded THEN last.fee ELSE <<>>,
                  address |-> IF encoded THEN last.address ELSE ZeroAddress]
  /\ UNCHANGED <<initPc, init, engine, lastCall, hist, args>>

CodecNext == GetWithdrawalDataCall \/ DecodeWithdrawalCall

SpecCodec == CodecInit /\ [][CodecNext]_vars

----------------------------------------------------------------------------
(* Properties *)

\* a mainchain-unit amount scaled to sidechain units, exactly: u * 10^10
ExactToSidechain(u) == BigOfNat(NatMul(u, <<0, 0, 100>>))

\* a non-negative sidechain-unit amount in mainchain units: v / 10^10, the remainder dropped
TruncatedToMainchain(v) == BigOfNat(NatDivMod(v.abs, <<0, 0, 100>>).q)

\* C1: a ConnectBlock with just_checking = true, accepted or not, leaves what
\* GetUnspentWithdrawals and GetDepositOutputs return as it was before the call.
C1_DryRunKeepsPegState ==
  (last.op = "ConnectBlock" /\ last.just_checking) =>
    /\ GetUnspentWithdrawals(get_unspent_withdrawals(engine))
         = GetUnspentWithdrawals(get_unspent_withdrawals(last.before))
    /\ \A valid \in BOOLEAN :
         GetDepositOutputs(get_deposit_outputs(engine, valid))
           = GetDepositOutputs(get_deposit_outputs(last.before, valid))

\* a dry run of a block with entries has been accepted while deposits are
\* pending and withdrawals unspent
C1_Witness ==
  /\ last.op = "ConnectBlock" /\ last.just_checking /\ last.result /\ last.nonempty
  /\ Len(get_unspent_withdrawals(engine)) > 0
  /\ Len(get_deposit_outputs(engine, TRUE).ptr) > 0

\* C2: a DisconnectBlock (not just checking) with the deposits, withdrawal ids
\* and refund ids of the block that the ConnectBlock right before it applied
\* returns true and leaves the engine in the state from before that ConnectBlock.
C2_DisconnectRestores ==
  (last.op = "DisconnectBlock" /\ last.matching /\ ~last.just_checking) =>
    (last.result /\ engine = last.pre)

C2_Witness ==
  /\ last.op = "DisconnectBlock" /\ last.matching /\ ~last.just_checking
  /\ last.nonempty /\ last.result /\ engine = last.pre
  /\ Len(engine.deposits) > 0

\* C3: decoding the payload GetWithdrawalData(fee) made succeeds and gives
\* back the fee, as the unsigned integer it was, and the address the engine
\* handed out.
C3_CodecRoundTrip ==
  (last.op = "DecodeWithdrawal" /\ last.encoded) =>
    /\ last.err = "nil" /\ last.panic = "none"
    /\ last.w.Fee = BigOfNat(last.fee)
    /\ last.w.Address = last.address

\* C4: DecodeWithdrawal returns an error and the empty Withdrawal for every
\* payload whose length is not 28, a Withdrawal and no error for every payload
\* of 28 bytes, and reaches neither "off by one error" panic.
C4_DecodeByLength ==
  last.op = "DecodeWithdrawal" =>
    /\ last.panic = "none"
    /\ Len(last.data) # 28 => (last.err # "nil" /\ last.w = EmptyWithdrawal)
    /\ Len(last.data) = 28 => (last.err = "nil" /\ ~last.w.Amount.nil /\ ~last.w.Fee.nil)

\* a payload one byte too long has been refused
C4_Witness ==
  /\ last.op = "DecodeWithdrawal" /\ Len(last.data) = 29
  /\ last.err # "nil" /\ last.w = EmptyWithdrawal

\* C5: GetDepositOutputs returns one Deposit per raw record, in order, with
\* the record's amount scaled to sidechain units (a * 10^10).
C5_DepositsScaled ==
  (last.op = "GetDepositOutputs" /\ last.err = "nil") =>
    /\ Len(last.deposits) = Len(last.raw.ptr)
    /\ \A i \in 1..Len(last.raw.ptr) :
         last.deposits[i].Amount = ExactToSidechain(last.raw.ptr[i].amount)

\* C6: a result the engine flags invalid gives an empty sequence and an
\* error, whatever records it carries; a valid result gives no error.
C6_InvalidDepositsRefused ==
  last.op = "GetDepositOutputs" =>
    /\ ~last.raw.valid => (last.deposits = <<>> /\ last.err # "nil")
    /\ last.raw.valid => last.err = "nil"

\* an invalid result that carried records has been refused
C6_Witness ==
  /\ last.op = "GetDepositOutputs" /\ ~last.raw.valid /\ Len(last.raw.ptr) > 0
  /\ last.deposits = <<>> /\ last.err # "nil"

IsBefore(events, a, b) ==
  \A i \in 1..Len(events) : events[i] = b => \E j \in 1..(i - 1) : events[j] = a

\* C7: the engine is initialized only after the treasury address matched and
\* the RPC answered 200; an address mismatch halts Init before any request is
\* sent; a transport error, a timeout or another status gives an error and no
\* initialized engine; Init returns nil only with the engine initialized.
C7_StartupGated ==
  /\ IsBefore(init.events, "address_ok", "rpc_sent")
  /\ IsBefore(init.events, "rpc_sent", "rpc_ok")
  /\ IsBefore(init.events, "rpc_ok", "engine_init")
  /\ engine.initialized => "engine_init" \in Range(init.events)
  /\ initPc = "panicked" => ("rpc_sent" \notin Range(init.events) /\ ~engine.initialized)
  /\ (initPc = "returned" /\ Range(init.events) \cap {"rpc_error", "rpc_not_ok"} # {})
       => (init.result = "err" /\ ~engine.initialized)
  /\ (initPc = "returned" /\ init.result = "nil") => engine.initialized

\* Init has returned nil after a retry-free run through all its gates
C7_Witness ==
  /\ initPc = "returned" /\ init.result = "nil" /\ engine.initialized
  /\ init.events = <<"address_ok", "rpc_sent", "rpc_ok", "engine_init">>

IsLowerHex(str) == \A i \in 1..Len(str) : str[i] \in Range(HexChars)

\* C8: every hash handed to the engine as a string (by AttemptBmm, VerifyBmm
\* and IsWithdrawalSpent) is lowercase hex without a "0x" prefix.
C8_HashesBareLowerHex ==
  \A i \in 1..Len(lastCall.hashes) :
    Len(lastCall.hashes[i]) = 2 * HashLength /\ IsLowerHex(lastCall.hashes[i])

\* C9: GetUnspentWithdrawals holds, under each record's id, a Withdrawal with
\* Amount = a * 10^10 and Fee = f * 10^10 for the record's unsigned amount a
\* and fee f.
C9_WithdrawalsScaled ==
  last.op = "GetUnspentWithdrawals" =>
    \A i \in 1..Len(last.raw) :
      LET id == HexToHash(last.raw[i].id)
      IN  /\ id \in DOMAIN last.withdrawals
          /\ last.withdrawals[id].Amount = ExactToSidechain(last.raw[i].amount)
          /\ last.withdrawals[id].Fee = ExactToSidechain(last.raw[i].fee)

\* C10: for a payload of 28 bytes DecodeWithdrawal gives Amount = value / 10^10
\* truncated, Fee = the unsigned big-endian integer of the first 8 bytes, and
\* the 20 bytes after them as the address.
C10_DecodeValues ==
  (last.op = "DecodeWithdrawal" /\ Len(last.data) = 28) =>
    /\ last.w.Amount = TruncatedToMainchain(last.value)
    /\ last.w.Fee = BigOfNat(Uint64(SubSeq(last.data, 1, 8)))
    /\ last.w.Address = SubSeq(last.data, 9, 28)

====
